---- MODULE Spec2Model ----
(***************************************************************************)
(* A model of src/src/host.cpp of the cpp-driver: the per-host connection  *)
(* marketplace (add_unpooled_connection, get_unpooled_connections,         *)
(* close_unpooled_connections), the copy-on-write host registry (add_host, *)
(* remove_host), the latency tracker (Host::LatencyTracker::update),       *)
(* VersionNumber::parse, Host::set, ExternalHostListener, and the locks of  *)
(* several hosts together.  Each part has its own specification over its   *)
(* own variables; the other parts' variables stay at their initial values. *)
(***************************************************************************)
EXTENDS Integers, Sequences, FiniteSets, TLC

\* ------------------------------------------------------------------------
\* Bounds of the model
\* ------------------------------------------------------------------------
NumThreads == 2     \* threads calling the marketplace of one host
MaxConns == 3       \* connections that can be deposited
NumShards == 2
MaxCount == 2       \* largest how_many asked for
MaxHosts == 4       \* distinct Host objects
NumAddrs == 2       \* distinct addresses among them
NumReaders == 1     \* handles copied from the registry owner's handle
NumUpdaters == 2    \* threads calling LatencyTracker::update
MaxUpdates == 5     \* update calls in one behaviour
MaxClock == 3       \* largest value uv_hrtime() returns
MaxThreshold == 2   \* largest threshold_to_account_
Width == 4          \* bits of the model's uint64_t / int64_t
MaxText == 5        \* longest string given to VersionNumber::parse on its own
MaxSets == 2        \* Host::set calls on one host
MaxEvents == 5      \* events delivered to the external callback
NumInets == 2       \* hosts the listener is told about
NumWorkers == 2     \* threads using the locks of several hosts
NumLockHosts == 2   \* hosts whose mutex and tracker those threads use

Threads == 1..NumThreads
NoThread == 0
Conns == 1..MaxConns
Shards == 0..(NumShards - 1)

HostIds == 1..MaxHosts       \* distinct Host objects (Host::Ptr values)
Addrs == 1..NumAddrs
Null == 0
Owner == 0                   \* the handle add_host and remove_host are given
Readers == 1..NumReaders     \* handles copied from the owner's handle
Handles == {Owner} \cup Readers
Objs == 1..(NumReaders + 1)  \* the HostVec objects the handles can refer to

Updaters == 1..NumUpdaters

Workers == 1..NumWorkers
LockHosts == 1..NumLockHosts

Min(a, b) == IF a < b THEN a ELSE b

\* ------------------------------------------------------------------------
\* State
\* ------------------------------------------------------------------------
\* The connection marketplace of one Host
VARIABLES
  unpooled_connections_per_shard, \* std::map<int, std::list<ExportedConnection::Ptr>>
  mutex,         \* Host::mutex_: the thread holding it, or NoThread
  mpc,           \* position of each thread inside a marketplace operation
  shard_id,      \* argument shard_id of the running get_unpooled_connections
  how_many,      \* argument how_many of the running get_unpooled_connections
  conn,          \* argument conn of the running add_unpooled_connection
  move_from,     \* the nodes in [begin_move_from, end_move_from)
  ret,           \* the list returned by the thread's last get_unpooled_connections
  close_it,      \* map keys the range-for of close_unpooled_connections has left
  fresh,         \* connections no caller has deposited yet
  deposited,     \* history: the connections pushed back so far, in push_back order
  returned,      \* history: how many get_unpooled_connections results held c
  imported,      \* history: how many times import_connection(loop)->close() ran on c
  close_called   \* history: close_unpooled_connections has been entered

\* The copy-on-write host registry
VARIABLES
  vec,         \* the HostVec each object holds
  ptr,         \* the object each handle refers to, or Null
  rpc,         \* position inside add_host / remove_host
  host,        \* argument host of the running add_host
  address,     \* argument address of the running remove_host
  it,          \* the iterator i, as an index into the vector
  found,       \* the value the last remove_host returned
  before,      \* history: the owner's sequence when the running call started
  snapshot,    \* history: the sequence each reader saw when it took its handle
  last_added   \* history: per address, the host of the latest add_host call

\* The latency tracker of one Host
VARIABLES
  current,               \* LatencyTracker::current_ (a TimestampedAverage)
  threshold_to_account,  \* LatencyTracker::threshold_to_account_
  scale_ns,              \* LatencyTracker::scale_ns_
  clock,                 \* the monotonic clock uv_hrtime() reads
  spinlock,              \* the tracker's pooled spinlock: its holder or NoThread
  upc,                   \* position of each thread inside update
  now,                   \* the local now of each running update
  latency_ns,            \* the argument of each running update
  previous,              \* the local previous of each running update
  calls,                 \* history: update calls that have returned
  huge,                  \* history: some call had a sample of 2^(Width-2) or more
  discarded              \* history: update calls that returned at delay <= 0

\* One VersionNumber instance and one call of parse on it
VARIABLES
  version,   \* the instance: major_version_, minor_version_, patch_version_
  text,      \* the string given to parse
  parsed,    \* what parse returned: "true" or "false", "none" before the call
  prior      \* history: the instance before the call

\* The metadata fields of one Host
VARIABLES
  self,         \* address_, rpc_address_, rack_, dc_, server_version_,
                \* dse_server_version_, partitioner_ and tokens_ of the host
  ingested,     \* history: the token lists appended so far, in call order
  sets,         \* history: Host::set calls so far
  rpc_decoded,  \* history: some call had an rpc_address that decoded
  constructed   \* history: the address the host was constructed with

\* One ExternalHostListener and the hosts it is told about
VARIABLES
  lifecycle,  \* per host: "unknown", "added" or "removed"
  delivered   \* history: the events the callback was given, in order

\* The host mutexes and pooled spinlocks of several hosts
VARIABLES
  host_mutex,  \* per host: the holder of Host::mutex_ or NoThread
  pool,        \* per slot of the spinlock pool: its holder or NoThread
  wpc,         \* position of each worker inside the operation it runs
  whost,       \* the host whose operation each worker runs
  wleft        \* lists a worker's close_unpooled_connections has yet to visit

mvars == <<unpooled_connections_per_shard, mutex, mpc, shard_id, how_many, conn,
           move_from, ret, close_it, fresh, deposited, returned, imported,
           close_called>>
rvars == <<vec, ptr, rpc, host, address, it, found, before, snapshot, last_added>>
tvars == <<current, threshold_to_account, scale_ns, clock, spinlock, upc, now,
           latency_ns, previous, calls, huge, discarded>>
pvars == <<version, text, parsed, prior>>
svars == <<self, ingested, sets, rpc_decoded, constructed>>
lvars == <<lifecycle, delivered>>
kvars == <<host_mutex, pool, wpc, whost, wleft>>
vars == <<mvars, rvars, tvars, pvars, svars, lvars, kvars>>

m_other == <<rvars, tvars, pvars, svars, lvars, kvars>>
r_other == <<mvars, tvars, pvars, svars, lvars, kvars>>
t_other == <<mvars, rvars, pvars, svars, lvars, kvars>>
p_other == <<mvars, rvars, tvars, svars, lvars, kvars>>
s_other == <<mvars, rvars, tvars, pvars, lvars, kvars>>
l_other == <<mvars, rvars, tvars, pvars, svars, kvars>>
k_other == <<mvars, rvars, tvars, pvars, svars, lvars>>

\* ========================================================================
\* The connection marketplace of one Host
\* ========================================================================
\* Connection::shard_id(): the shard a connection was negotiated for.
ShardOf(c) == c % NumShards

\* int32_t shard_id = conn->shard_id() is the key of the list pushed to.
FirstKey(c) == 0
ShardKey(c) == ShardOf(c)

\* std::map::find(shard_id) != end()
Found(m, s) == s \in DOMAIN m

\* The list of shard s, empty when the map has no such key.
ListOf(m, s) == IF Found(m, s) THEN m[s] ELSE <<>>

\* unpooled_connections_per_shard_[shard_id]: operator[] inserts an empty list.
MapAt(m, s) == IF Found(m, s) THEN m ELSE [k \in DOMAIN m \cup {s} |-> IF k = s THEN <<>> ELSE m[k]]

\* ScopedMutex lock(&mutex_) proceeds only when nobody holds the mutex.
NoExclusion(m) == TRUE
CanLock(m) == m = NoThread

\* The elements of a sequence, as a set.
Range(q) == {q[i] : i \in 1..Len(q)}

\* std::next(begin, std::min(how_many, (int)size)): the first nodes of the list.
TakeAll(list, n) == list
TakeFront(list, n) == SubSeq(list, 1, Min(n, Len(list)))

\* ret.splice(ret.begin(), list_move_from, begin, end): the nodes leave the list.
SpliceKeep(list, nodes) == list
SpliceOut(list, nodes) == SelectSeq(list, LAMBDA c : c \notin Range(nodes))

\* conn_list.second.clear()
NoClear(list) == list
Clear(list) == <<>>

MInit ==
  /\ unpooled_connections_per_shard = <<>>
  /\ mutex = NoThread
  /\ mpc = [t \in Threads |-> "idle"]
  /\ shard_id = [t \in Threads |-> 0]
  /\ how_many = [t \in Threads |-> 0]
  /\ conn = [t \in Threads |-> 0]
  /\ move_from = [t \in Threads |-> <<>>]
  /\ ret = [t \in Threads |-> <<>>]
  /\ close_it = [t \in Threads |-> {}]
  /\ fresh = Conns
  /\ deposited = <<>>
  /\ returned = [c \in Conns |-> 0]
  /\ imported = [c \in Conns |-> 0]
  /\ close_called = FALSE

\* --- Host::get_unpooled_connections(shard_id, how_many) ------------------
GetCall(t) ==
  /\ mpc[t] = "idle"
  /\ \E s \in Shards, n \in 0..MaxCount :
       /\ shard_id' = [shard_id EXCEPT ![t] = s]
       /\ how_many' = [how_many EXCEPT ![t] = n]
  /\ ret' = [ret EXCEPT ![t] = <<>>]
  /\ mpc' = [mpc EXCEPT ![t] = "get_lock"]
  /\ UNCHANGED <<unpooled_connections_per_shard, mutex, conn, move_from,
                 close_it, fresh, deposited, returned, imported, close_called>>
  /\ UNCHANGED m_other

GetLock(t) ==
  /\ mpc[t] = "get_lock"
  /\ CanLock(mutex)
  /\ mutex' = t
  /\ mpc' = [mpc EXCEPT ![t] = "get_find"]
  /\ UNCHANGED <<unpooled_connections_per_shard, shard_id, how_many, conn,
                 move_from, ret, close_it, fresh, deposited, returned, imported,
                 close_called>>
  /\ UNCHANGED m_other

\* find() fails or the list is empty: return {} and unlock.
GetEmpty(t) ==
  /\ mpc[t] = "get_find"
  /\ \/ ~Found(unpooled_connections_per_shard, shard_id[t])
     \/ ListOf(unpooled_connections_per_shard, shard_id[t]) = <<>>
  /\ ret' = [ret EXCEPT ![t] = <<>>]
  /\ shard_id' = [shard_id EXCEPT ![t] = 0]
  /\ how_many' = [how_many EXCEPT ![t] = 0]
  /\ mutex' = NoThread
  /\ mpc' = [mpc EXCEPT ![t] = "idle"]
  /\ UNCHANGED <<unpooled_connections_per_shard, conn, move_from, close_it, fresh,
                 deposited, returned, imported, close_called>>
  /\ UNCHANGED m_other

\* The iterators begin_move_from and end_move_from are taken.
GetFind(t) ==
  /\ mpc[t] = "get_find"
  /\ Found(unpooled_connections_per_shard, shard_id[t])
  /\ ListOf(unpooled_connections_per_shard, shard_id[t]) # <<>>
  /\ move_from' = [move_from EXCEPT ![t] =
                     TakeFront(unpooled_connections_per_shard[shard_id[t]], how_many[t])]
  /\ mpc' = [mpc EXCEPT ![t] = "get_splice"]
  /\ UNCHANGED <<unpooled_connections_per_shard, mutex, shard_id, how_many, conn,
                 ret, close_it, fresh, deposited, returned, imported, close_called>>
  /\ UNCHANGED m_other

\* splice, return ret and unlock.
GetSplice(t) ==
  /\ mpc[t] = "get_splice"
  /\ ret' = [ret EXCEPT ![t] = move_from[t]]
  /\ unpooled_connections_per_shard' =
       [unpooled_connections_per_shard EXCEPT ![shard_id[t]] =
          SpliceOut(@, move_from[t])]
  /\ returned' = [c \in Conns |->
                    IF c \in Range(move_from[t]) THEN returned[c] + 1 ELSE returned[c]]
  /\ move_from' = [move_from EXCEPT ![t] = <<>>]
  /\ shard_id' = [shard_id EXCEPT ![t] = 0]
  /\ how_many' = [how_many EXCEPT ![t] = 0]
  /\ mutex' = NoThread
  /\ mpc' = [mpc EXCEPT ![t] = "idle"]
  /\ UNCHANGED <<conn, close_it, fresh, deposited, imported, close_called>>
  /\ UNCHANGED m_other

\* --- Host::add_unpooled_connection(conn) ---------------------------------
AddCall(t) ==
  /\ mpc[t] = "idle"
  /\ \E c \in fresh :
       /\ conn' = [conn EXCEPT ![t] = c]
       /\ fresh' = fresh \ {c}
  /\ mpc' = [mpc EXCEPT ![t] = "add_lock"]
  /\ UNCHANGED <<unpooled_connections_per_shard, mutex, shard_id, how_many,
                 move_from, ret, close_it, deposited, returned, imported,
                 close_called>>
  /\ UNCHANGED m_other

AddLock(t) ==
  /\ mpc[t] = "add_lock"
  /\ CanLock(mutex)
  /\ mutex' = t
  /\ mpc' = [mpc EXCEPT ![t] = "add_push"]
  /\ UNCHANGED <<unpooled_connections_per_shard, shard_id, how_many, conn,
                 move_from, ret, close_it, fresh, deposited, returned, imported,
                 close_called>>
  /\ UNCHANGED m_other

AddPush(t) ==
  /\ mpc[t] = "add_push"
  /\ unpooled_connections_per_shard' =
       [MapAt(unpooled_connections_per_shard, ShardKey(conn[t]))
          EXCEPT ![ShardKey(conn[t])] = Append(@, conn[t])]
  /\ deposited' = Append(deposited, conn[t])
  /\ conn' = [conn EXCEPT ![t] = 0]
  /\ mutex' = NoThread
  /\ mpc' = [mpc EXCEPT ![t] = "idle"]
  /\ UNCHANGED <<shard_id, how_many, move_from, ret, close_it, fresh, returned,
                 imported, close_called>>
  /\ UNCHANGED m_other

\* --- Host::close_unpooled_connections(loop) ------------------------------
CloseCall(t) ==
  /\ mpc[t] = "idle"
  /\ mpc' = [mpc EXCEPT ![t] = "close_lock"]
  /\ UNCHANGED <<unpooled_connections_per_shard, mutex, shard_id, how_many, conn,
                 move_from, ret, close_it, fresh, deposited, returned, imported,
                 close_called>>
  /\ UNCHANGED m_other

CloseLock(t) ==
  /\ mpc[t] = "close_lock"
  /\ CanLock(mutex)
  /\ mutex' = t
  /\ close_it' = [close_it EXCEPT ![t] = DOMAIN unpooled_connections_per_shard]
  /\ close_called' = TRUE
  /\ mpc' = [mpc EXCEPT ![t] = "close_loop"]
  /\ UNCHANGED <<unpooled_connections_per_shard, shard_id, how_many, conn,
                 move_from, ret, fresh, deposited, returned, imported>>
  /\ UNCHANGED m_other

\* One iteration of the outer loop: the next key in map order.
CloseLoop(t) ==
  /\ mpc[t] = "close_loop"
  /\ close_it[t] # {}
  /\ LET k == CHOOSE x \in close_it[t] : \A y \in close_it[t] : x <= y
         list == ListOf(unpooled_connections_per_shard, k)
     IN /\ imported' = [c \in Conns |->
                          IF c \in Range(list) THEN imported[c] + 1 ELSE imported[c]]
        /\ unpooled_connections_per_shard' =
             [unpooled_connections_per_shard EXCEPT ![k] = Clear(@)]
        /\ close_it' = [close_it EXCEPT ![t] = @ \ {k}]
  /\ UNCHANGED <<mutex, mpc, shard_id, how_many, conn, move_from, ret, fresh,
                 deposited, returned, close_called>>
  /\ UNCHANGED m_other

\* The loop is over: unlock and return.
CloseDone(t) ==
  /\ mpc[t] = "close_loop"
  /\ close_it[t] = {}
  /\ mutex' = NoThread
  /\ mpc' = [mpc EXCEPT ![t] = "idle"]
  /\ UNCHANGED <<unpooled_connections_per_shard, shard_id, how_many, conn,
                 move_from, ret, close_it, fresh, deposited, returned, imported,
                 close_called>>
  /\ UNCHANGED m_other


MNext ==
  \E t \in Threads :
    \/ GetCall(t) \/ GetLock(t) \/ GetEmpty(t) \/ GetFind(t) \/ GetSplice(t)
    \/ AddCall(t) \/ AddLock(t) \/ AddPush(t)
    \/ CloseCall(t) \/ CloseLock(t) \/ CloseLoop(t) \/ CloseDone(t)

\* ========================================================================
\* The copy-on-write host registry: add_host and remove_host
\* ========================================================================
\* Host::address(): several Host objects can have the same address.
AddressOf(h) == ((h - 1) % NumAddrs) + 1

\* (*i)->address() == address
DifferentAddress(a, b) == FALSE
SameAddress(a, b) == a = b

\* Number of handles that share object o.
RefCount(p, o) == Cardinality({h \in DOMAIN p : p[h] = o})

\* CopyOnWritePtr::operator->() on a non-const handle: a handle that shares
\* its vector with another handle gets a private copy before it is used.
NoDetach(v, p, h) == [vec |-> v, ptr |-> p]
Detach(v, p, h) ==
  IF RefCount(p, p[h]) > 1
  THEN LET o == CHOOSE x \in Objs : RefCount(p, x) = 0
       IN [vec |-> [v EXCEPT ![o] = v[p[h]]], ptr |-> [p EXCEPT ![h] = o]]
  ELSE [vec |-> v, ptr |-> p]

\* hosts->erase(i)
EraseFrom(list, n) == SubSeq(list, 1, n - 1)
Erase(list, n) == SubSeq(list, 1, n - 1) \o SubSeq(list, n + 1, Len(list))

\* *i = host
Assign(list, n, h) == [list EXCEPT ![n] = h]

RInit ==
  /\ vec = [o \in Objs |-> <<>>]
  /\ ptr = [h \in Handles |-> IF h = Owner THEN 1 ELSE Null]
  /\ rpc = "idle"
  /\ host = Null
  /\ address = Null
  /\ it = 0
  /\ found = FALSE
  /\ before = <<>>
  /\ snapshot = [r \in Readers |-> <<>>]
  /\ last_added = [a \in Addrs |-> Null]

\* --- add_host(hosts, host) -----------------------------------------------
\* i = hosts->begin()
AddHostBegin ==
  /\ rpc = "idle"
  /\ \E h \in HostIds :
       /\ host' = h
       /\ last_added' = [last_added EXCEPT ![AddressOf(h)] = h]
  /\ LET d == Detach(vec, ptr, Owner)
     IN /\ vec' = d.vec
        /\ ptr' = d.ptr
        /\ before' = d.vec[d.ptr[Owner]]
  /\ it' = 1
  /\ rpc' = "add_scan"
  /\ UNCHANGED <<address, found, snapshot>>
  /\ UNCHANGED r_other

\* One test of i != hosts->end() and, inside the loop, of the addresses.
AddHostScan ==
  /\ rpc = "add_scan"
  /\ LET d == Detach(vec, ptr, Owner)
         list == d.vec[d.ptr[Owner]]
     IN /\ ptr' = d.ptr
        /\ IF it <= Len(list)
           THEN IF SameAddress(AddressOf(list[it]), AddressOf(host))
                THEN /\ vec' = [d.vec EXCEPT ![d.ptr[Owner]] = Assign(list, it, host)]
                     /\ rpc' = "add_end"
                     /\ it' = it
                ELSE /\ vec' = d.vec
                     /\ rpc' = "add_scan"
                     /\ it' = it + 1
           ELSE /\ vec' = d.vec
                /\ rpc' = "add_end"
                /\ it' = it
  /\ UNCHANGED <<host, address, found, before, snapshot, last_added>>
  /\ UNCHANGED r_other

\* if (i == hosts->end()) hosts->push_back(host)
AddHostEnd ==
  /\ rpc = "add_end"
  /\ LET d == Detach(vec, ptr, Owner)
         list == d.vec[d.ptr[Owner]]
     IN /\ ptr' = d.ptr
        /\ vec' = IF it = Len(list) + 1
                  THEN [d.vec EXCEPT ![d.ptr[Owner]] = Append(list, host)]
                  ELSE d.vec
  /\ rpc' = "idle"
  /\ it' = 0
  /\ UNCHANGED <<host, address, found, before, snapshot, last_added>>
  /\ UNCHANGED r_other

\* --- remove_host(hosts, address), remove_host(hosts, host) ---------------
\* The overload taking a host passes host->address().
RemoveHostBegin ==
  /\ rpc = "idle"
  /\ \E a \in Addrs \cup {AddressOf(h) : h \in HostIds} : address' = a
  /\ LET d == Detach(vec, ptr, Owner)
     IN /\ vec' = d.vec
        /\ ptr' = d.ptr
        /\ before' = d.vec[d.ptr[Owner]]
  /\ it' = 1
  /\ rpc' = "rm_scan"
  /\ UNCHANGED <<host, found, snapshot, last_added>>
  /\ UNCHANGED r_other

RemoveHostScan ==
  /\ rpc = "rm_scan"
  /\ LET d == Detach(vec, ptr, Owner)
         list == d.vec[d.ptr[Owner]]
     IN /\ ptr' = d.ptr
        /\ IF it <= Len(list)
           THEN IF SameAddress(AddressOf(list[it]), address)
                THEN /\ vec' = [d.vec EXCEPT ![d.ptr[Owner]] = Erase(list, it)]
                     /\ found' = TRUE
                     /\ rpc' = "idle"
                     /\ it' = 0
                ELSE /\ vec' = d.vec
                     /\ found' = found
                     /\ rpc' = "rm_scan"
                     /\ it' = it + 1
           ELSE /\ vec' = d.vec
                /\ found' = FALSE
                /\ rpc' = "idle"
                /\ it' = 0
  /\ UNCHANGED <<host, address, before, snapshot, last_added>>
  /\ UNCHANGED r_other

\* --- readers -------------------------------------------------------------
\* A reader copies the owner's handle (the owner publishes between calls).
ReaderTake(r) ==
  /\ rpc = "idle"
  /\ ptr[r] = Null
  /\ ptr' = [ptr EXCEPT ![r] = ptr[Owner]]
  /\ snapshot' = [snapshot EXCEPT ![r] = vec[ptr[Owner]]]
  /\ UNCHANGED <<vec, rpc, host, address, it, found, before, last_added>>
  /\ UNCHANGED r_other

\* A reader releases its handle; the vector dies with its last handle.
ReaderDrop(r) ==
  /\ ptr[r] # Null
  /\ ptr' = [ptr EXCEPT ![r] = Null]
  /\ vec' = IF RefCount(ptr, ptr[r]) = 1 THEN [vec EXCEPT ![ptr[r]] = <<>>] ELSE vec
  /\ snapshot' = [snapshot EXCEPT ![r] = <<>>]
  /\ UNCHANGED <<rpc, host, address, it, found, before, last_added>>
  /\ UNCHANGED r_other

RNext ==
  \/ AddHostBegin \/ AddHostScan \/ AddHostEnd
  \/ RemoveHostBegin \/ RemoveHostScan
  \/ \E r \in Readers : ReaderTake(r) \/ ReaderDrop(r)

\* ========================================================================
\* The latency tracker: Host::LatencyTracker::update
\* ========================================================================
Pow2(n) == 2 ^ n

\* static_cast<int64_t>(uint64_t): the value modulo 2^Width, read as signed.
ToInt64(x) == LET m == x % Pow2(Width)
              IN IF m >= Pow2(Width - 1) THEN m - Pow2(Width) ELSE m

Int64 == (0 - Pow2(Width - 1))..(Pow2(Width - 1) - 1)

\* Sample values: small ones, the largest that is far from the sign bit, the
\* smallest whose conversion to int64_t is negative, and UINT64_MAX.
Latencies == {0, 2, Pow2(Width - 2) - 1, Pow2(Width - 1), Pow2(Width) - 1}

ScaleChoices == {1, 2}

\* log(scaled_delay + 1) / scaled_delay in millionths, indexed by
\* 2 * scaled_delay (scaled_delay = delay / scale_ns is a multiple of 1/2).
Millionth == 1000000
WeightTable == <<810930, 693147, 610860, 549306, 501105, 462098, 429736, 402359,
                 378833, 358352, 340328, 324318, 309985, 297063, 285342, 274653>>
Weight(delay, scale) == WeightTable[(2 * delay) \div scale]

\* static_cast<int64_t>((1.0 - weight) * latency_ns + weight * previous.average):
\* truncation of a non-negative double.  On the delays, scales and values of
\* this model the quotient below is the value the double arithmetic gives.
\* A result that does not fit int64_t is undefined behaviour: any value; so
\* is the NaN a delay of 0 or less would give.
WeightedAverage(delay, scale, latency, average) ==
  IF delay <= 0 THEN Int64
  ELSE LET w == Weight(delay, scale)
           r == ((Millionth - w) * latency + w * average) \div Millionth
       IN IF r >= Pow2(Width - 1) THEN Int64 ELSE {r}

\* current_.average = latency_ns: the first valid sample, converted to int64_t.
ZeroAverage(latency) == 0
FirstAverage(latency) == ToInt64(latency)

\* TimestampedAverage(): average(-1), timestamp(0), num_measured(0)
NewAverage == [average |-> -1, timestamp |-> 0, num_measured |-> 0]

\* previous.num_measured < threshold_to_account_
WarmUpThrough(n, threshold) == n <= threshold
WarmUp(n, threshold) == n < threshold

\* delay <= 0: the sample is discarded.
NeverDiscard(delay) == FALSE
DiscardZero(delay) == delay = 0
Discard(delay) == delay <= 0

\* ScopedSpinlock l(...) proceeds only when nobody holds the spinlock.
NoSpinExclusion(l) == TRUE
CanSpin(l) == l = NoThread

TInit ==
  /\ current = NewAverage
  /\ threshold_to_account \in 0..MaxThreshold
  /\ scale_ns \in ScaleChoices
  /\ clock = 1
  /\ spinlock = NoThread
  /\ upc = [t \in Updaters |-> "idle"]
  /\ now = [t \in Updaters |-> 0]
  /\ latency_ns = [t \in Updaters |-> 0]
  /\ previous = [t \in Updaters |-> NewAverage]
  /\ calls = 0
  /\ huge = FALSE
  /\ discarded = 0

\* The tracker of a host nobody updates.
TRest ==
  /\ current = NewAverage
  /\ threshold_to_account = 0
  /\ scale_ns = 1
  /\ clock = 1
  /\ spinlock = NoThread
  /\ upc = [t \in Updaters |-> "idle"]
  /\ now = [t \in Updaters |-> 0]
  /\ latency_ns = [t \in Updaters |-> 0]
  /\ previous = [t \in Updaters |-> NewAverage]
  /\ calls = 0
  /\ huge = FALSE
  /\ discarded = 0

\* Time passes.
Tick ==
  /\ clock < MaxClock
  /\ clock' = clock + 1
  /\ UNCHANGED <<current, threshold_to_account, scale_ns, spinlock, upc, now,
                 latency_ns, previous, calls, huge, discarded>>
  /\ UNCHANGED t_other

\* Update calls that have been made and have not returned.
Running == Cardinality({t \in Updaters : upc[t] # "idle"})

\* uint64_t now = uv_hrtime();
UpdateCall(t) ==
  /\ upc[t] = "idle"
  /\ calls + Running < MaxUpdates
  /\ \E l \in Latencies :
       /\ latency_ns' = [latency_ns EXCEPT ![t] = l]
       /\ huge' = (huge \/ l >= Pow2(Width - 2))
  /\ now' = [now EXCEPT ![t] = clock]
  /\ upc' = [upc EXCEPT ![t] = "lock"]
  /\ UNCHANGED <<current, threshold_to_account, scale_ns, clock, spinlock,
                 previous, calls, discarded>>
  /\ UNCHANGED t_other

\* ScopedSpinlock l(...); TimestampedAverage previous = current_;
UpdateLock(t) ==
  /\ upc[t] = "lock"
  /\ CanSpin(spinlock)
  /\ spinlock' = t
  /\ previous' = [previous EXCEPT ![t] = current]
  /\ upc' = [upc EXCEPT ![t] = "body"]
  /\ UNCHANGED <<current, threshold_to_account, scale_ns, clock, now, latency_ns,
                 calls, huge, discarded>>
  /\ UNCHANGED t_other

\* The new value of current_, or previous itself when the sample is discarded.
Updated(prev, latency, t_now, threshold, scale) ==
  LET delay == ToInt64(t_now - prev.timestamp)
      stamp(a) == [average |-> a, timestamp |-> t_now,
                   num_measured |-> prev.num_measured + 1]
  IN IF WarmUp(prev.num_measured, threshold) THEN {stamp(-1)}
     ELSE IF prev.average < 0 THEN {stamp(FirstAverage(latency))}
     ELSE IF Discard(delay) THEN {prev}
     ELSE {stamp(a) : a \in WeightedAverage(delay, scale, latency, prev.average)}

\* The if-chain, the two final assignments, and the unlock on return.
UpdateBody(t) ==
  /\ upc[t] = "body"
  /\ current' \in Updated(previous[t], latency_ns[t], now[t],
                          threshold_to_account, scale_ns)
  /\ calls' = calls + 1
  /\ discarded' = discarded + (IF current' = previous[t] THEN 1 ELSE 0)
  /\ spinlock' = NoThread
  /\ upc' = [upc EXCEPT ![t] = "idle"]
  /\ now' = [now EXCEPT ![t] = 0]
  /\ latency_ns' = [latency_ns EXCEPT ![t] = 0]
  /\ previous' = [previous EXCEPT ![t] = NewAverage]
  /\ UNCHANGED <<threshold_to_account, scale_ns, clock, huge>>
  /\ UNCHANGED t_other

TNext ==
  \/ Tick
  \/ \E t \in Updaters : UpdateCall(t) \/ UpdateLock(t) \/ UpdateBody(t)

\* ========================================================================
\* VersionNumber
\* ========================================================================
\* VersionNumber(major, minor, patch)
VersionNumber(major, minor, patch) ==
  [major_version |-> major, minor_version |-> minor, patch_version |-> patch]

Digits == {"0", "1", "2", "3", "4", "5", "6", "7", "8", "9"}
DigitValue ==
  ("0" :> 0) @@ ("1" :> 1) @@ ("2" :> 2) @@ ("3" :> 3) @@ ("4" :> 4) @@
  ("5" :> 5) @@ ("6" :> 6) @@ ("7" :> 7) @@ ("8" :> 8) @@ ("9" :> 9)

\* The digits a %d conversion consumes from position i on, and their value.
RECURSIVE ScanDigits(_, _, _)
ScanDigits(str, i, acc) ==
  IF i <= Len(str) /\ str[i] \in Digits
  THEN ScanDigits(str, i + 1, acc * 10 + DigitValue[str[i]])
  ELSE [value |-> acc, next |-> i]

\* One %d conversion at position i: it fails unless a digit is there.  The
\* strings of the model hold neither white space nor a sign.
ScanInt(str, i) ==
  IF i <= Len(str) /\ str[i] \in Digits
  THEN LET d == ScanDigits(str, i, 0) IN
       [ok |-> TRUE, value |-> d.value, next |-> d.next]
  ELSE [ok |-> FALSE, value |-> 0, next |-> i]

\* The literal '.' of the format matches at position i.
Dot(str, i) == i <= Len(str) /\ str[i] = "."

\* sscanf(str, "%d.%d.%d", ...): the values converted before the first
\* mismatch; sscanf returns their number (or EOF, which is below 2 too).
Sscanf(str) ==
  LET a == ScanInt(str, 1) IN
  IF ~a.ok THEN <<>>
  ELSE IF ~Dot(str, a.next) THEN <<a.value>>
  ELSE LET b == ScanInt(str, a.next + 1) IN
       IF ~b.ok THEN <<a.value>>
       ELSE IF ~Dot(str, b.next) THEN <<a.value, b.value>>
       ELSE LET c == ScanInt(str, b.next + 1) IN
            IF ~c.ok THEN <<a.value, b.value>>
            ELSE <<a.value, b.value, c.value>>

\* sscanf stores each converted value through the pointer to the member
\* and leaves the other members alone.
Stored(v, conv) ==
  [major_version |-> IF Len(conv) >= 1 THEN conv[1] ELSE v.major_version,
   minor_version |-> IF Len(conv) >= 2 THEN conv[2] ELSE v.minor_version,
   patch_version |-> IF Len(conv) >= 3 THEN conv[3] ELSE v.patch_version]

\* VersionNumber::parse(version) on the instance v: the returned bool and
\* the instance afterwards.
Parse(v, str) ==
  LET conv == Sscanf(str) IN [ok |-> Len(conv) >= 2, version |-> Stored(v, conv)]

\* The strings and instances parse is tried on.
Alphabet == {"1", "3", ".", "x"}
Texts == UNION {[1..n -> Alphabet] : n \in 0..MaxText}
PriorVersions == {VersionNumber(0, 0, 0), VersionNumber(3, 11, 5)}

PInit ==
  /\ text \in Texts
  /\ prior \in PriorVersions
  /\ version = prior
  /\ parsed = "none"

PRest ==
  /\ text = <<>>
  /\ prior = VersionNumber(0, 0, 0)
  /\ version = prior
  /\ parsed = "none"

\* version.parse(text)
ParseCall ==
  /\ parsed = "none"
  /\ LET r == Parse(version, text) IN
       /\ version' = r.version
       /\ parsed' = IF r.ok THEN "true" ELSE "false"
  /\ UNCHANGED <<text, prior>>
  /\ UNCHANGED p_other

PNext == ParseCall

\* ========================================================================
\* Host::set(row, use_tokens)
\* ========================================================================
\* operator>= and operator< of VersionNumber: lexicographic on the triple.
Less(a, b) ==
  \/ a.major_version < b.major_version
  \/ /\ a.major_version = b.major_version
     /\ \/ a.minor_version < b.minor_version
        \/ /\ a.minor_version = b.minor_version
           /\ a.patch_version < b.patch_version

GreaterEqual(a, b) == ~Less(a, b)

\* The version below which a DSE server wrongly reports Cassandra 4.0.0.
DseThresholdLow == VersionNumber(6, 6, 0)
DseThreshold == VersionNumber(6, 7, 0)

\* Row::get_string_by_name(name, &out): out is assigned when the row has a
\* value for the name; "" stands for a row without one.
GetStringByName(field, out) == IF field = "" THEN out ELSE field

\* Decoder::as_inet(size, port, &out): out becomes the decoded address with
\* the given port when the bytes are an address, and is left alone otherwise.
AsInet(field, port, out) ==
  IF field.kind = "inet" THEN [ip |-> field.ip, port |-> port] ELSE out

\* address_.port(), the port given to as_inet.
NoPort(addr) == 0
RpcPort(addr) == addr.port

\* tokens_.push_back(...) for each element the CollectionIterator yields.
Refill(tokens, items) == items
PushBack(tokens, items) == tokens \o items

\* The rows Host::set is given.  release_version is the string read from
\* the row (empty when the row has none); dse_version can be absent; tokens
\* can be absent, a value that is no collection, or a collection;
\* rpc_address can be absent, null, an address or bytes that are none.
Metas ==
  {[rack |-> "", data_center |-> "", partitioner |-> ""],
   [rack |-> "r1", data_center |-> "dc1", partitioner |-> "Murmur3"]}
ReleaseTexts == {<<"4", ".", "0", ".", "0">>, <<"3", ".", "0">>, <<"x">>}
DseTexts == {<<"6", ".", "6", ".", "5">>, <<"6", ".", "7">>, <<"7", ".", "x">>, <<"x">>}
DseFields ==
  {[present |-> FALSE, str |-> <<>>]} \cup {[present |-> TRUE, str |-> t] : t \in DseTexts}
TokenFields ==
  {[kind |-> "absent", items |-> <<>>],
   [kind |-> "scalar", items |-> <<>>],
   [kind |-> "collection", items |-> <<"t2", "t1">>]}
Wildcards == {"0.0.0.0", "::"}
RpcFields ==
  {[kind |-> "absent", ip |-> ""],
   [kind |-> "null", ip |-> ""],
   [kind |-> "malformed", ip |-> ""],
   [kind |-> "inet", ip |-> "10.0.0.2"]}
    \cup {[kind |-> "inet", ip |-> w] : w \in Wildcards}
Rows ==
  {[rack |-> m.rack, data_center |-> m.data_center, partitioner |-> m.partitioner,
    release_version |-> r, dse_version |-> d, tokens |-> k, rpc_address |-> a] :
     m \in Metas, r \in ReleaseTexts, d \in DseFields, k \in TokenFields,
     a \in RpcFields}
Ports == {9042, 19042}

\* rack_ = rack; dc_ = dc; with rack and dc empty unless the row has them.
SetRackDc(h, row) ==
  [h EXCEPT !.rack = GetStringByName(row.rack, ""),
            !.dc = GetStringByName(row.data_center, "")]

\* A new VersionNumber parses release_version and is stored when parse
\* returned true.
SetServerVersion(h, row) ==
  LET server_version == Parse(VersionNumber(0, 0, 0), row.release_version) IN
  IF server_version.ok THEN [h EXCEPT !.server_version = server_version.version]
  ELSE h

\* dse_server_version_ parses dse_version when server_version_ >= 4.0.0 and
\* the row has the field; a parsed version below 6.7.0 sets server_version_
\* to 3.11.0.
SetDseVersion(h, row) ==
  IF GreaterEqual(h.server_version, VersionNumber(4, 0, 0)) /\ row.dse_version.present
  THEN LET dse == Parse(h.dse_server_version, row.dse_version.str) IN
       [h EXCEPT !.dse_server_version = dse.version,
                 !.server_version =
                    IF dse.ok /\ Less(dse.version, DseThreshold)
                    THEN VersionNumber(3, 11, 0) ELSE @]
  ELSE h

\* row->get_string_by_name("partitioner", &partitioner_)
SetPartitioner(h, row) ==
  [h EXCEPT !.partitioner = GetStringByName(row.partitioner, @)]

SetTokens(h, row, use_tokens) ==
  IF use_tokens /\ row.tokens.kind = "collection"
  THEN [h EXCEPT !.tokens = PushBack(@, row.tokens.items)]
  ELSE h

SetRpcAddress(h, row) ==
  IF row.rpc_address.kind \notin {"absent", "null"}
  THEN [h EXCEPT !.rpc_address = AsInet(row.rpc_address, RpcPort(h.address), @)]
  ELSE h

\* The fields of the host h after h.set(row, use_tokens).
HostSet(h, row, use_tokens) ==
  SetRpcAddress(
    SetTokens(
      SetPartitioner(SetDseVersion(SetServerVersion(SetRackDc(h, row), row), row), row),
      row, use_tokens),
    row)

\* Host::Host(address)
NewHost(addr) ==
  [address |-> addr, rpc_address |-> addr, rack |-> "", dc |-> "",
   server_version |-> VersionNumber(0, 0, 0),
   dse_server_version |-> VersionNumber(0, 0, 0),
   partitioner |-> "", tokens |-> <<>>]

SInit ==
  /\ \E p \in Ports : self = NewHost([ip |-> "10.0.0.1", port |-> p])
  /\ constructed = self.address
  /\ ingested = <<>>
  /\ sets = 0
  /\ rpc_decoded = FALSE

SRest ==
  /\ self = NewHost([ip |-> "10.0.0.1", port |-> 0])
  /\ constructed = self.address
  /\ ingested = <<>>
  /\ sets = 0
  /\ rpc_decoded = FALSE

\* The token list a call appends: the row's collection when tokens are asked for.
TokenList(row, use_tokens) ==
  IF use_tokens /\ row.tokens.kind = "collection" THEN row.tokens.items ELSE <<>>

\* host.set(row, use_tokens)
SetRow ==
  /\ sets < MaxSets
  /\ \E row \in Rows, use_tokens \in BOOLEAN :
       /\ self' = HostSet(self, row, use_tokens)
       /\ ingested' = ingested \o TokenList(row, use_tokens)
       /\ rpc_decoded' = (rpc_decoded \/ row.rpc_address.kind = "inet")
  /\ sets' = sets + 1
  /\ UNCHANGED constructed
  /\ UNCHANGED s_other

SNext == SetRow

\* ========================================================================
\* ExternalHostListener
\* ========================================================================
\* The hosts the listener is told about; their addresses differ in the IP.
Inets == 1..NumInets

\* Address::to_inet(&address): the bytes of the IP and their number; the
\* port is not part of a CassInet.
ToInet(addr) == [address |-> addr.ip, address_length |-> 4]

\* The address of the host with number a.
InetAddress(a) == [ip |-> a, port |-> 9042]

\* callback_(event, address, data_): the record the callback is given.
Callback(event, inet) == [event |-> event, inet |-> inet]
OnHostUp(a) == Callback("UP", ToInet(InetAddress(a)))
OnHostDown(a) == Callback("DOWN", ToInet(InetAddress(a)))
OnHostAdded(a) == Callback("ADD", ToInet(InetAddress(a)))
OnHostRemoved(a) == Callback("REMOVE", ToInet(InetAddress(a)))

\* The caller reports a host up or down only between its add and removal.
AnyState(state) == TRUE
Added(state) == state = "added"

LInit ==
  /\ lifecycle = [a \in Inets |-> "unknown"]
  /\ delivered = <<>>

LRest ==
  /\ lifecycle = [a \in Inets |-> "unknown"]
  /\ delivered = <<>>

NotifyAdded(a) ==
  /\ Len(delivered) < MaxEvents
  /\ lifecycle[a] = "unknown"
  /\ lifecycle' = [lifecycle EXCEPT ![a] = "added"]
  /\ delivered' = Append(delivered, OnHostAdded(a))
  /\ UNCHANGED l_other

NotifyUp(a) ==
  /\ Len(delivered) < MaxEvents
  /\ Added(lifecycle[a])
  /\ delivered' = Append(delivered, OnHostUp(a))
  /\ UNCHANGED lifecycle
  /\ UNCHANGED l_other

NotifyDown(a) ==
  /\ Len(delivered) < MaxEvents
  /\ Added(lifecycle[a])
  /\ delivered' = Append(delivered, OnHostDown(a))
  /\ UNCHANGED lifecycle
  /\ UNCHANGED l_other

NotifyRemoved(a) ==
  /\ Len(delivered) < MaxEvents
  /\ Added(lifecycle[a])
  /\ lifecycle' = [lifecycle EXCEPT ![a] = "removed"]
  /\ delivered' = Append(delivered, OnHostRemoved(a))
  /\ UNCHANGED l_other

LNext ==
  \E a \in Inets :
    \/ NotifyAdded(a)
    \/ NotifyUp(a)
    \/ NotifyDown(a)
    \/ NotifyRemoved(a)

\* ========================================================================
\* The locks of several hosts
\* ========================================================================
\* Each worker runs update, get_unpooled_connections, add_unpooled_connection
\* or close_unpooled_connections on some host.  Only the locks are kept: what
\* an operation finds in the data it guards (a stale clock reading, an empty
\* list, the number of lists to close) is any of the possible outcomes.

\* Slots of the spinlock pool the trackers draw their spinlock from.
PoolSize == 1
Slots == 0..(PoolSize - 1)

\* SpinlockPool<LatencyTracker>::get_spinlock(this): the slot of the tracker
\* of host h.
SlotOf(h) == h % PoolSize

\* The ScopedMutex or ScopedSpinlock of an operation goes out of scope.
StayLocked(holder) == holder
Unlock(holder) == NoThread

KInit ==
  /\ host_mutex = [h \in LockHosts |-> NoThread]
  /\ pool = [s \in Slots |-> NoThread]
  /\ wpc = [w \in Workers |-> "idle"]
  /\ whost = [w \in Workers |-> 0]
  /\ wleft = [w \in Workers |-> 0]

KRest ==
  /\ host_mutex = [h \in LockHosts |-> NoThread]
  /\ pool = [s \in Slots |-> NoThread]
  /\ wpc = [w \in Workers |-> "idle"]
  /\ whost = [w \in Workers |-> 0]
  /\ wleft = [w \in Workers |-> 0]

\* A worker calls an operation of host h.
Enter(w, h, pc) ==
  /\ wpc[w] = "idle"
  /\ wpc' = [wpc EXCEPT ![w] = pc]
  /\ whost' = [whost EXCEPT ![w] = h]
  /\ UNCHANGED <<host_mutex, pool, wleft>>
  /\ UNCHANGED k_other

\* ScopedMutex lock(&mutex_) of the worker's host.
TakeMutex(w, from, to) ==
  /\ wpc[w] = from
  /\ CanLock(host_mutex[whost[w]])
  /\ host_mutex' = [host_mutex EXCEPT ![whost[w]] = w]
  /\ wpc' = [wpc EXCEPT ![w] = to]

\* The operation returns and its ScopedMutex is destroyed.
LeaveMutex(w, from) ==
  /\ wpc[w] = from
  /\ host_mutex' = [host_mutex EXCEPT ![whost[w]] = Unlock(@)]
  /\ wpc' = [wpc EXCEPT ![w] = "idle"]
  /\ whost' = [whost EXCEPT ![w] = 0]

\* --- Host::LatencyTracker::update ----------------------------------------
LkUpdateCall(w) == \E h \in LockHosts : Enter(w, h, "update_spin")

LkUpdateSpin(w) ==
  /\ wpc[w] = "update_spin"
  /\ CanSpin(pool[SlotOf(whost[w])])
  /\ pool' = [pool EXCEPT ![SlotOf(whost[w])] = w]
  /\ wpc' = [wpc EXCEPT ![w] = "update_body"]
  /\ UNCHANGED <<host_mutex, whost, wleft>>
  /\ UNCHANGED k_other

\* update returns, at delay <= 0 or at its end.
LkUpdateReturn(w) ==
  /\ wpc[w] = "update_body"
  /\ pool' = [pool EXCEPT ![SlotOf(whost[w])] = Unlock(@)]
  /\ wpc' = [wpc EXCEPT ![w] = "idle"]
  /\ whost' = [whost EXCEPT ![w] = 0]
  /\ UNCHANGED <<host_mutex, wleft>>
  /\ UNCHANGED k_other

\* --- Host::get_unpooled_connections --------------------------------------
LkGetCall(w) == \E h \in LockHosts : Enter(w, h, "get_lock")

LkGetLock(w) ==
  /\ TakeMutex(w, "get_lock", "get_find")
  /\ UNCHANGED <<pool, whost, wleft>>
  /\ UNCHANGED k_other

\* No list for the shard, or an empty one: return {}.
LkGetEmpty(w) ==
  /\ LeaveMutex(w, "get_find")
  /\ UNCHANGED <<pool, wleft>>
  /\ UNCHANGED k_other

LkGetFind(w) ==
  /\ wpc[w] = "get_find"
  /\ wpc' = [wpc EXCEPT ![w] = "get_splice"]
  /\ UNCHANGED <<host_mutex, pool, whost, wleft>>
  /\ UNCHANGED k_other

LkGetSplice(w) ==
  /\ LeaveMutex(w, "get_splice")
  /\ UNCHANGED <<pool, wleft>>
  /\ UNCHANGED k_other

\* --- Host::add_unpooled_connection ---------------------------------------
LkAddCall(w) == \E h \in LockHosts : Enter(w, h, "add_lock")

LkAddLock(w) ==
  /\ TakeMutex(w, "add_lock", "add_push")
  /\ UNCHANGED <<pool, whost, wleft>>
  /\ UNCHANGED k_other

LkAddPush(w) ==
  /\ LeaveMutex(w, "add_push")
  /\ UNCHANGED <<pool, wleft>>
  /\ UNCHANGED k_other

\* --- Host::close_unpooled_connections ------------------------------------
LkCloseCall(w) == \E h \in LockHosts : Enter(w, h, "close_lock")

\* The map holds a list for any number of the shards.
LkCloseLock(w) ==
  /\ TakeMutex(w, "close_lock", "close_loop")
  /\ \E n \in 0..NumShards : wleft' = [wleft EXCEPT ![w] = n]
  /\ UNCHANGED <<pool, whost>>
  /\ UNCHANGED k_other

LkCloseLoop(w) ==
  /\ wpc[w] = "close_loop"
  /\ wleft[w] > 0
  /\ wleft' = [wleft EXCEPT ![w] = @ - 1]
  /\ UNCHANGED <<host_mutex, pool, wpc, whost>>
  /\ UNCHANGED k_other

LkCloseDone(w) ==
  /\ wleft[w] = 0
  /\ LeaveMutex(w, "close_loop")
  /\ UNCHANGED <<pool, wleft>>
  /\ UNCHANGED k_other

\* The steps of a worker that take a lock, and the steps it takes while it
\* holds one.
Acquire(w) == LkUpdateSpin(w) \/ LkGetLock(w) \/ LkAddLock(w) \/ LkCloseLock(w)
Inside(w) ==
  \/ LkUpdateReturn(w)
  \/ LkGetEmpty(w) \/ LkGetFind(w) \/ LkGetSplice(w)
  \/ LkAddPush(w)
  \/ LkCloseLoop(w) \/ LkCloseDone(w)

KNext ==
  \E w \in Workers :
    \/ LkUpdateCall(w) \/ LkUpdateSpin(w) \/ LkUpdateReturn(w)
    \/ LkGetCall(w) \/ LkGetLock(w) \/ LkGetEmpty(w) \/ LkGetFind(w) \/ LkGetSplice(w)
    \/ LkAddCall(w) \/ LkAddLock(w) \/ LkAddPush(w)
    \/ LkCloseCall(w) \/ LkCloseLock(w) \/ LkCloseLoop(w) \/ LkCloseDone(w)

\* ========================================================================
\* Specifications
\* ========================================================================
\* The marketplace of a host, with everything else untouched.
InitMarket == MInit /\ RInit /\ TRest /\ PRest /\ SRest /\ LRest /\ KRest
SpecMarket == InitMarket /\ [][MNext]_vars

\* The registry, with everything else untouched.
InitRegistry == MInit /\ RInit /\ TRest /\ PRest /\ SRest /\ LRest /\ KRest
SpecRegistry == InitRegistry /\ [][RNext]_vars

\* The tracker, with everything else untouched.
InitTracker == MInit /\ RInit /\ TInit /\ PRest /\ SRest /\ LRest /\ KRest
SpecTracker == InitTracker /\ [][TNext]_vars

\* One call of VersionNumber::parse.
InitParse == MInit /\ RInit /\ TRest /\ PInit /\ SRest /\ LRest /\ KRest
SpecParse == InitParse /\ [][PNext]_vars

\* Host::set calls on one host.
InitSet == MInit /\ RInit /\ TRest /\ PRest /\ SInit /\ LRest /\ KRest
SpecSet == InitSet /\ [][SNext]_vars

\* The listener and its caller.
InitListener == MInit /\ RInit /\ TRest /\ PRest /\ SRest /\ LInit /\ KRest
SpecListener == InitListener /\ [][LNext]_vars

\* Workers on the locks of several hosts.  A worker that holds a lock goes
\* on, and a worker that waits for a lock gets it if it is free again and
\* again.
InitLocks == MInit /\ RInit /\ TRest /\ PRest /\ SRest /\ LRest /\ KInit
SpecLocks ==
  /\ InitLocks
  /\ [][KNext]_vars
  /\ \A w \in Workers : WF_vars(Inside(w)) /\ SF_vars(Acquire(w))

\* ------------------------------------------------------------------------
\* Properties of the marketplace
\* ------------------------------------------------------------------------
RECURSIVE SumOver(_, _)
SumOver(f, S) == IF S = {} THEN 0
                 ELSE LET x == CHOOSE y \in S : TRUE IN f[x] + SumOver(f, S \ {x})

\* How many nodes of the shard lists hold connection c.
Occurrences(c) ==
  SumOver([k \in DOMAIN unpooled_connections_per_shard |->
             Cardinality({i \in 1..Len(unpooled_connections_per_shard[k]) :
                            unpooled_connections_per_shard[k][i] = c})],
          DOMAIN unpooled_connections_per_shard)

\* The connections of shard s in the order their deposits completed.
DepositOrder(s) == SelectSeq(deposited, LAMBDA c : ShardOf(c) = s)

IsSuffix(a, b) == /\ Len(a) <= Len(b)
                  /\ a = SubSeq(b, Len(b) - Len(a) + 1, Len(b))

Held(s) == ListOf(unpooled_connections_per_shard, s)

AllEmpty == \A k \in DOMAIN unpooled_connections_per_shard :
              unpooled_connections_per_shard[k] = <<>>

\* C1: under any interleaving of deposit, withdraw and close_all every
\* deposited connection has exactly one owner: one node of one shard list, or
\* the result of one withdraw call, or closed by close_all; no connection is
\* returned by two withdraw calls, and no connection that was not deposited
\* has any owner.
C1_SingleOwner ==
  \A c \in Conns :
    /\ Occurrences(c) + returned[c] + imported[c] =
         (IF c \in Range(deposited) THEN 1 ELSE 0)
    /\ returned[c] <= 1
    /\ \A t \in Threads : c \in Range(ret[t]) =>
         /\ returned[c] = 1
         /\ \A u \in Threads \ {t} : c \notin Range(ret[u])

\* Two threads withdraw from the same shard at the same time, one inside the
\* critical section and one waiting for it, after a connection was returned.
C1_Witness ==
  \E t, u \in Threads :
    /\ t # u
    /\ mpc[t] = "get_splice" /\ mpc[u] = "get_lock"
    /\ shard_id[t] = shard_id[u]
    /\ Len(move_from[t]) >= 1 /\ how_many[u] >= 1
    /\ \E c \in Conns : returned[c] = 1

\* C2: with no close_all, the number of connections held for a shard is the
\* number deposited minus the number returned by withdraw calls; withdraw on
\* an unknown or empty shard returns an empty result and changes nothing.
C2_ConservationInv ==
  ~close_called =>
    \A s \in Shards :
      Len(Held(s)) = Len(DepositOrder(s))
                       - SumOver(returned, {c \in Conns : ShardOf(c) = s})

C2_EmptyStep ==
  \A t \in Threads :
    (mpc[t] = "get_find" /\ Held(shard_id[t]) = <<>> /\ mpc'[t] # "get_find") =>
      /\ mpc'[t] = "idle"
      /\ ret'[t] = <<>>
      /\ unpooled_connections_per_shard' = unpooled_connections_per_shard

C2_Conservation == [](C2_ConservationInv) /\ [][C2_EmptyStep]_vars

\* Connections were deposited and some withdrawn, and a withdraw on a shard
\* the map does not know has just returned empty.
C2_Witness ==
  /\ ~close_called
  /\ \E s \in Shards : Len(DepositOrder(s)) >= 2 /\ Len(Held(s)) = 1
  /\ \E s \in Shards : ~Found(unpooled_connections_per_shard, s)
  /\ \E t \in Threads : mpc[t] = "get_find" /\ Held(shard_id[t]) = <<>>

\* C3: withdraw(shard, max_count) with max_count >= 0 returns exactly
\* min(max_count, held) connections, the oldest deposited ones of the shard
\* in deposit order, and the connections left keep their order.
C3_ReturnStep ==
  \A t \in Threads :
    (mpc[t] \in {"get_find", "get_splice"} /\ mpc'[t] = "idle") =>
      LET list == Held(shard_id[t])
          k == Min(how_many[t], Len(list))
      IN /\ Len(ret'[t]) = k
         /\ ret'[t] = SubSeq(list, 1, k)
         /\ ListOf(unpooled_connections_per_shard', shard_id[t]) =
              SubSeq(list, k + 1, Len(list))

C3_DepositOrderInv == \A s \in Shards : IsSuffix(Held(s), DepositOrder(s))

C3_WithdrawFront == [](C3_DepositOrderInv) /\ [][C3_ReturnStep]_vars

\* A withdraw asked for fewer connections than the shard holds: a splice of
\* a proper, non-empty front of the list.
C3_Witness ==
  \E t \in Threads :
    /\ mpc[t] = "get_splice"
    /\ Len(move_from[t]) >= 1
    /\ Len(move_from[t]) < Len(Held(shard_id[t]))
    /\ how_many[t] = Len(move_from[t])

\* C4: close_all imports and closes every connection held at the time of
\* the call exactly once and leaves every shard list empty; a close_all or a
\* withdraw on the emptied marketplace imports and returns nothing, and no
\* connection is ever imported twice.
C4_CloseStep ==
  \A t \in Threads :
    /\ (mpc[t] = "close_loop" /\ close_it[t] # {} /\ close_it'[t] # close_it[t]) =>
         \E k \in close_it[t] :
           /\ close_it'[t] = close_it[t] \ {k}
           /\ Held(k)' = <<>>
           /\ \A c \in Conns :
                imported'[c] = imported[c] + (IF c \in Range(Held(k)) THEN 1 ELSE 0)
    /\ (mpc[t] = "close_loop" /\ mpc'[t] = "idle") =>
         /\ AllEmpty'
         /\ \A c \in Range(deposited) : returned[c] + imported[c] = 1
    /\ AllEmpty => imported' = imported
    /\ (AllEmpty /\ mpc[t] = "get_find" /\ mpc'[t] = "idle") => ret'[t] = <<>>

C4_ImportedOnceInv == \A c \in Conns : imported[c] <= 1

C4_CloseAll == [](C4_ImportedOnceInv) /\ [][C4_CloseStep]_vars

\* A second close_all runs its loop after an earlier one closed connections
\* and a later deposit put a new one into the marketplace.
C4_Witness ==
  \E t \in Threads :
    /\ mpc[t] = "close_loop"
    /\ \E c \in Conns : imported[c] = 1
    /\ \E k \in close_it[t] : Held(k) # <<>>

\* ------------------------------------------------------------------------
\* Properties of the registry
\* ------------------------------------------------------------------------
\* The sequence the owner's handle refers to.
OwnerVec == vec[ptr[Owner]]

HasAddress(list, a) == \E j \in 1..Len(list) : AddressOf(list[j]) = a

FirstWith(list, a) ==
  CHOOSE j \in 1..Len(list) :
    /\ AddressOf(list[j]) = a
    /\ \A k \in 1..(j - 1) : AddressOf(list[k]) # a

\* C5: starting from an empty collection, after any sequence of add_host and
\* remove_host calls the collection has at most one entry per address, each
\* entry is the host of the most recent add_host call for its address, and an
\* add_host that replaces an entry keeps its position and the length.
C5_UniqueInv ==
  /\ \A j, k \in 1..Len(OwnerVec) :
       j # k => AddressOf(OwnerVec[j]) # AddressOf(OwnerVec[k])
  /\ rpc = "idle" =>
       \A j \in 1..Len(OwnerVec) : OwnerVec[j] = last_added[AddressOf(OwnerVec[j])]

C5_AddStep ==
  (rpc = "add_end" /\ rpc' = "idle") =>
    IF HasAddress(before, AddressOf(host))
    THEN /\ Len(OwnerVec') = Len(before)
         /\ OwnerVec' = [before EXCEPT ![FirstWith(before, AddressOf(host))] = host]
    ELSE OwnerVec' = Append(before, host)

C5_RegistryUnique == [](C5_UniqueInv) /\ [][C5_AddStep]_vars

\* add_host has replaced the second of two entries by another host with the
\* same address.
C5_Witness ==
  /\ rpc = "idle"
  /\ Len(OwnerVec) = 2 /\ Len(before) = 2
  /\ OwnerVec[2] = host /\ before[2] # host
  /\ OwnerVec[1] = before[1]

\* C6: remove_host on an address that is not present returns false and
\* leaves the collection unchanged; on an address that is present it removes
\* the first entry with that address, returns true and leaves the other
\* entries in their original order.
C6_RemoveStep ==
  (rpc = "rm_scan" /\ rpc' = "idle") =>
    IF HasAddress(before, address)
    THEN /\ found' = TRUE
         /\ OwnerVec' = SubSeq(before, 1, FirstWith(before, address) - 1)
                          \o SubSeq(before, FirstWith(before, address) + 1, Len(before))
    ELSE /\ found' = FALSE
         /\ OwnerVec' = before

C6_RemoveHost == [][C6_RemoveStep]_vars

\* remove_host has removed the first of two entries and kept the second.
C6_Witness ==
  /\ rpc = "idle"
  /\ found = TRUE
  /\ Len(before) = 2 /\ AddressOf(before[1]) = address
  /\ OwnerVec = <<before[2]>>

\* C7: a reader that holds an older handle observes the same sequence of
\* hosts before, during and after every add_host and remove_host applied
\* through the owner's handle.
C7_SnapshotIsolation ==
  \A r \in Readers : ptr[r] # Null => vec[ptr[r]] = snapshot[r]

\* A reader holds its handle while add_host is in its loop on a sequence
\* that already differs from the reader's.
C7_Witness ==
  \E r \in Readers :
    /\ ptr[r] # Null
    /\ rpc = "add_scan"
    /\ ptr[Owner] # ptr[r]
    /\ Len(snapshot[r]) >= 1
    /\ OwnerVec # snapshot[r]

\* ------------------------------------------------------------------------
\* Properties of the latency tracker
\* ------------------------------------------------------------------------
\* Thread t returns from update in this step.
Returns(t) == upc[t] = "body" /\ upc'[t] = "idle"

\* C8 as claimed: the average is undefined after fewer than T calls and the
\* T-th call stores the T-th sample's raw value.
C8_OnThresholdCall ==
  /\ [](calls < threshold_to_account => current.average = -1)
  /\ [][\A t \in Updaters :
          (Returns(t) /\ calls' = threshold_to_account /\ current.average = -1)
            => current'.average = latency_ns[t]]_vars

\* C8: the average is undefined (-1) after at most T calls to update, and
\* the call after the T-th, the first whose previous num_measured is not
\* below T, stores its sample as the average, converted to int64_t.
C8_WarmUpInv == calls <= threshold_to_account => current.average = -1

C8_FirstSampleStep ==
  \A t \in Updaters :
    (Returns(t) /\ calls = threshold_to_account) =>
      current'.average = ToInt64(latency_ns[t])

C8_AfterThresholdCall == [](C8_WarmUpInv) /\ [][C8_FirstSampleStep]_vars

\* The call after the warm-up of a tracker with T = 2 has stored its sample.
C8_Witness ==
  /\ threshold_to_account = 2
  /\ calls = 3
  /\ current.num_measured = 3
  /\ current.average = 2

\* C9 as claimed: the average is -1 exactly when num_measured < T.
C9_UndefinedIffBelow ==
  current.average = -1 <=> current.num_measured < threshold_to_account

\* C9: the average is -1 whenever num_measured <= T, and, as long as every
\* sample was below 2^(Width-2), only then.
C9_UndefinedIffWarmUp ==
  /\ current.num_measured <= threshold_to_account => current.average = -1
  /\ (~huge /\ current.average = -1) => current.num_measured <= threshold_to_account

\* A tracker that has taken exactly T >= 1 samples and is still undefined,
\* with a sample in flight that will define it.
C9_Witness ==
  /\ threshold_to_account >= 1
  /\ current.num_measured = threshold_to_account
  /\ current.average = -1
  /\ ~huge
  /\ \E t \in Updaters : upc[t] = "body"

\* The tracker is past its warm-up and has a defined average.
Averaging ==
  /\ current.num_measured >= threshold_to_account
  /\ current.average >= 0

\* C10 as claimed: a call whose clock reading is not later than the stored
\* timestamp changes nothing, whatever state the tracker is in.
C10_StaleNeverApplied ==
  [][\A t \in Updaters :
       (Returns(t) /\ now[t] <= current.timestamp) => current' = current]_vars

\* C10: a call whose clock reading is not later than the stored timestamp
\* changes neither average, num_measured nor timestamp when the tracker is
\* averaging; during warm-up and on the first valid sample the call is
\* applied whatever the clock reads.
C10_StaleStep ==
  \A t \in Updaters :
    (Returns(t) /\ now[t] <= current.timestamp) =>
      IF Averaging
      THEN current' = current
      ELSE /\ current'.num_measured = current.num_measured + 1
           /\ current'.timestamp = now[t]

C10_StaleDiscarded == [][C10_StaleStep]_vars

\* A call was discarded: more calls have returned than were counted.
C10_Witness ==
  /\ calls > current.num_measured
  /\ Averaging
  /\ \A t \in Updaters : upc[t] = "idle"

\* C11: concurrent update calls exclude each other: between a call's read
\* of previous and its write no other call reads or writes current_, at most
\* one call is inside the critical section, and num_measured is the number
\* of returned calls that were not discarded (no increment is lost).
C11_UpdatesAtomic ==
  /\ current.num_measured = calls - discarded
  /\ Cardinality({t \in Updaters : upc[t] = "body"}) <= 1
  /\ \A t \in Updaters : upc[t] = "body" => (spinlock = t /\ previous[t] = current)

\* One call is inside the critical section while another waits for the
\* spinlock, after calls were counted and one was discarded.
C11_Witness ==
  \E t, u \in Updaters :
    /\ upc[t] = "body" /\ upc[u] = "lock"
    /\ current.num_measured >= 2
    /\ discarded >= 1

\* C20 as claimed: with a monotonic clock the stored timestamp never
\* decreases from one state to the next.
C20_TimestampMonotonic == [][current'.timestamp >= current.timestamp]_vars

\* C20: with a monotonic clock the stored timestamp never decreases in a
\* step of a tracker that is averaging; a call that returns during warm-up
\* or stores the first sample sets the timestamp to its own clock reading,
\* whatever the stored timestamp is.
C20_TimestampStep ==
  \A t \in Updaters :
    Returns(t) =>
      IF Averaging
      THEN current'.timestamp >= current.timestamp
      ELSE current'.timestamp = now[t]

C20_TimestampAveraging == [][C20_TimestampStep]_vars

\* A call whose clock reading is older than the stored timestamp is inside
\* the critical section of an averaging tracker.
C20_Witness ==
  \E t \in Updaters :
    /\ upc[t] = "body"
    /\ Averaging
    /\ now[t] < current.timestamp

\* C19: every connection stored in the list of shard s has shard id s, a
\* withdrawal from shard s returns only connections of shard s, and a deposit
\* of a shard-s connection or a withdrawal from shard s leaves the list of
\* every other shard as it was.
C19_PartitionInv ==
  \A s \in DOMAIN unpooled_connections_per_shard :
    \A c \in Range(unpooled_connections_per_shard[s]) : ShardOf(c) = s

C19_FrameStep ==
  \A t \in Threads :
    /\ (mpc[t] = "add_push" /\ mpc'[t] = "idle") =>
         \A s \in Shards \ {ShardOf(conn[t])} :
           ListOf(unpooled_connections_per_shard', s)
             = ListOf(unpooled_connections_per_shard, s)
    /\ (mpc[t] \in {"get_find", "get_splice"} /\ mpc'[t] = "idle") =>
         /\ \A c \in Range(ret'[t]) : ShardOf(c) = shard_id[t]
         /\ \A s \in Shards \ {shard_id[t]} :
              ListOf(unpooled_connections_per_shard', s)
                = ListOf(unpooled_connections_per_shard, s)

C19_ShardPartition == []C19_PartitionInv /\ [][C19_FrameStep]_vars

\* Both shards hold a connection and a withdrawal has returned one.
C19_Witness ==
  /\ \A s \in Shards : ListOf(unpooled_connections_per_shard, s) # <<>>
  /\ \E t \in Threads : mpc[t] = "idle" /\ ret[t] # <<>>

\* ------------------------------------------------------------------------
\* Properties of VersionNumber::parse
\* ------------------------------------------------------------------------
\* The dot-separated integer components at the start of a string, up to three.
Components(str) == Len(Sscanf(str))

\* C13: parse returns true exactly when at least the major and the minor
\* component were read, and whenever it returns false the instance's
\* (major, minor, patch) triple is what it was before the call.
C13_ParseAllOrNothing ==
  parsed # "none" =>
    /\ (parsed = "true") <=> (Components(text) >= 2)
    /\ (parsed = "false") => (version = prior)

\* ------------------------------------------------------------------------
\* Properties of Host::set
\* ------------------------------------------------------------------------
\* The version a string states: what an instance of its own parses from it.
Stated(str) == Parse(VersionNumber(0, 0, 0), str)

\* The base version of a call: the one release_version states, or the
\* host's stored version when release_version states none.
BaseVersion(h, row) ==
  IF Stated(row.release_version).ok THEN Stated(row.release_version).version
  ELSE h.server_version

\* C14: whatever the host holds and whatever row it is given, when the base
\* version is >= 4.0.0 and the row has a dse_version that parses to a
\* version below 6.7.0, server_version is 3.11.0 after set; when the vendor
\* version is 6.7.0 or above, absent or unparsable, or the base version is
\* below 4.0.0, server_version is the base version after set.
C14_VendorCorrection ==
  \A row \in Rows, use_tokens \in BOOLEAN :
    LET base == BaseVersion(self, row)
        vendor == Stated(row.dse_version.str)
        after == HostSet(self, row, use_tokens).server_version
    IN  IF /\ GreaterEqual(base, VersionNumber(4, 0, 0))
           /\ row.dse_version.present
           /\ vendor.ok
           /\ Less(vendor.version, VersionNumber(6, 7, 0))
        THEN after = VersionNumber(3, 11, 0)
        ELSE after = base

\* A host reported as 4.0.0 by a DSE 6.6.5 server has been corrected.
C14_Witness ==
  /\ sets >= 1
  /\ self.server_version = VersionNumber(3, 11, 0)
  /\ self.dse_server_version = VersionNumber(6, 6, 5)

\* C15: for any row whose release_version fails to parse, set leaves
\* server_version at its previous value and gives rack, data_center,
\* partitioner, tokens and rpc_address the values it gives them for the same
\* row with a release_version that parses.
C15_IngestionIndependent ==
  \A row \in Rows, use_tokens \in BOOLEAN :
    ~Stated(row.release_version).ok =>
      LET after == HostSet(self, row, use_tokens) IN
      /\ after.server_version = self.server_version
      /\ \A valid \in {r \in ReleaseTexts : Stated(r).ok} :
           LET good == HostSet(self, [row EXCEPT !.release_version = valid], use_tokens)
           IN  /\ after.rack = good.rack
               /\ after.dc = good.dc
               /\ after.partitioner = good.partitioner
               /\ after.tokens = good.tokens
               /\ after.rpc_address = good.rpc_address

\* C17: set never changes the primary address; rpc_address is the primary
\* address until a call decodes one; a row without rpc_address leaves
\* rpc_address as it was, and a row whose rpc_address decodes makes it the
\* decoded address with the primary address's port, wildcard or not.
C17_RpcAddress ==
  /\ self.address = constructed
  /\ ~rpc_decoded => self.rpc_address = self.address
  /\ \A row \in Rows, use_tokens \in BOOLEAN :
       LET after == HostSet(self, row, use_tokens) IN
       /\ after.address = self.address
       /\ row.rpc_address.kind = "absent" => after.rpc_address = self.rpc_address
       /\ row.rpc_address.kind = "inet" =>
            after.rpc_address = [ip |-> row.rpc_address.ip, port |-> self.address.port]

\* The host's rpc_address is a wildcard with the primary address's port.
C17_Witness ==
  /\ rpc_decoded
  /\ self.rpc_address.ip \in Wildcards
  /\ self.rpc_address.port = self.address.port
  /\ self.address.ip = "10.0.0.1"

\* C18: the token sequence is the concatenation, in call order, of the token
\* lists of the calls made with use_tokens true; a call with use_tokens true
\* appends the row's tokens in order to the sequence, and a call with
\* use_tokens false or with a tokens field that is absent or no collection
\* leaves the sequence unchanged.
C18_TokenAccumulation ==
  /\ self.tokens = ingested
  /\ \A row \in Rows, use_tokens \in BOOLEAN :
       LET after == HostSet(self, row, use_tokens) IN
       IF use_tokens /\ row.tokens.kind = "collection"
       THEN after.tokens = self.tokens \o row.tokens.items
       ELSE after.tokens = self.tokens

\* Two calls have appended their tokens one after the other.
C18_Witness ==
  /\ sets = 2
  /\ self.tokens = <<"t2", "t1", "t2", "t1">>

\* ------------------------------------------------------------------------
\* Properties of the listener
\* ------------------------------------------------------------------------
\* The events delivered for one address, in order.
EventsOf(inet) == SelectSeq(delivered, LAMBDA e : e.inet = inet)

MutexesOf(w) == {h \in LockHosts : host_mutex[h] = w}
SpinlocksOf(w) == {s \in Slots : pool[s] = w}

\* No worker holds a host mutex and a spinlock, or holds one while it
\* waits for the other.
C12_NeverNested ==
  \A w \in Workers :
    /\ MutexesOf(w) = {} \/ SpinlocksOf(w) = {}
    /\ MutexesOf(w) # {} => wpc[w] # "update_spin"
    /\ SpinlocksOf(w) # {} => wpc[w] \notin {"get_lock", "add_lock", "close_lock"}

\* A worker holds the lock of the operation it is inside and no other, and
\* none once the operation has returned or before it took the lock.
C12_Released ==
  \A w \in Workers :
    /\ MutexesOf(w) =
         IF wpc[w] \in {"get_find", "get_splice", "add_push", "close_loop"}
         THEN {whost[w]} ELSE {}
    /\ SpinlocksOf(w) = IF wpc[w] = "update_body" THEN {SlotOf(whost[w])} ELSE {}

====
